---- MODULE Spec2Model ----
(***************************************************************************)
(* The local cache of pyalveo (src/pyalveo/cache.py): an SQLite index with *)
(* the three tables items, documents and primary_texts, and a directory    *)
(* of blob files that back the documents rows; and the fetch methods of    *)
(* the Client (src/pyalveo/pyalveo.py) that read and write this cache.     *)
(***************************************************************************)
EXTENDS Integers, Sequences, FiniteSets, TLC

\* ------------------------------------------------------------------ bounds
MaxTime == 2        \* the wall clock takes the values 0..MaxTime
MaxMaxAge == 1      \* max_age is configured in 0..MaxMaxAge
MaxSteps == 4       \* method calls plus clock ticks in one behaviour
NumPaths == 3       \* number of distinct uuid4 tokens
MaxFetches == 3     \* fetches of a Client plus clock ticks before them
MaxClockSteps == 2  \* calls or fetches plus ticks where the clock can be set back
MaxCompareSteps == 2  \* calls in a behaviour where Caches are compared
MaxRepairSteps == 2   \* calls on an index with rows in excess or files missing
RecursionLimit == 3   \* nested calls the interpreter allows (sys.getrecursionlimit())
MaxAdds == 3        \* add methods entered where their statements interleave

Urls == {"u1", "u2"}
Texts == {"t1", "t2"}
Data == {"b1", "b2"}
Paths == 1..NumPaths

\* A key is passed as a plain url string or as an Item/Document object.
KeyArgs == [rep : {"str", "obj"}, url : Urls]

\* The key argument that is the plain string u.
Key(u) == [rep |-> "str", url |-> u]

NoValue == "None"               \* Python None where a payload is expected
NoFile == "absent"              \* no file at a path
None == [none |-> TRUE]         \* Python None where a row is expected

VARIABLES
    items,          \* table items (url, metadata, datetime), in rowid order
    documents,      \* table documents (url, path, datetime), in rowid order
    primary_texts,  \* table primary_texts (item_url, primary_text, datetime)
    files,          \* file_dir: path -> content, or NoFile
    max_age,        \* Cache.max_age
    now,            \* the wall clock read by datetime.datetime.now
    nops,           \* number of method calls made so far
    ret,            \* the last method call and its outcome
    latest,         \* history: the payload of the last add_<kind> per key
    disk,           \* cache_dir, file_dir and the database file on disk
    conn,           \* Cache.conn: "open" once a Cache has been constructed
    use_cache,      \* Client.use_cache
    update_cache,   \* Client.update_cache
    fetch,          \* the last fetch method of the Client and how it went
    writers         \* per writer: how far its add method has got

vars == <<items, documents, primary_texts, files, max_age, now, nops, ret, latest,
          disk, conn, use_cache, update_cache, fetch, writers>>

\* What the Client adds to the state of its Cache.
clientvars == <<use_cache, update_cache, fetch>>

Kinds == {"items", "documents", "primary_texts"}

\* ----------------------------------------------------------------- helpers

\* str(item_url): a string is itself, an Item or Document gives its url.
str(k) == k.url

\* Variant: the SELECT without its WHERE clause.
SelectRows_no_where(table, col, key) == table

\* "SELECT * FROM <table> WHERE <col>=?"
SelectRows(table, col, key) == SelectSeq(table, LAMBDA r : r[col] = key)

\* cursor.fetchone(): the first row of the result, or None
fetchone(rows) == IF rows = <<>> THEN None ELSE Head(rows)

\* "DELETE FROM <table> WHERE <col>=?"
DeleteRows(table, col, key) == SelectSeq(table, LAMBDA r : r[col] # key)

\* "INSERT INTO <table> VALUES (?, ?, ?)"
InsertRow(table, row) == Append(table, row)

\* row[1] of each of the given documents rows
PathsOf(rows) == {rows[i].path : i \in 1..Len(rows)}

\* datetime.datetime.now(dateutil.tz.gettz()).isoformat()
now_iso_8601 == [iso |-> now]

\* dateutil.parser.parse(row[2])
parse(s) == s.iso

\* Variant: a row is too old from age = max_age on.
exists_row_not_too_old_from_max_age(row) ==
    IF row = None THEN FALSE
    ELSE LET record_time == parse(row.datetime)
             age == record_time - now
         IN  IF age >= max_age THEN FALSE ELSE TRUE

exists_row_not_too_old(row) ==
    IF row = None THEN FALSE
    ELSE LET record_time == parse(row.datetime)
             age == record_time - now
         IN  IF age > max_age THEN FALSE ELSE TRUE

\* ------------------------------------------------- pure results of lookups

has_item(k) == exists_row_not_too_old(fetchone(SelectRows(items, "url", str(k))))

has_document(k) == exists_row_not_too_old(fetchone(SelectRows(documents, "url", str(k))))

has_primary_text(k) ==
    exists_row_not_too_old(fetchone(SelectRows(primary_texts, "item_url", str(k))))

Return(v) == [outcome |-> "return", value |-> v]
Raise(e) == [outcome |-> e, value |-> NoValue]

\* Variant: a row that has_item does not report is not returned.
get_item_reported_only(k) ==
    LET row == fetchone(SelectRows(items, "url", str(k)))
    IN  IF row = None \/ ~has_item(k) THEN {Raise("ValueError")}
        ELSE {Return(row.metadata)}

get_item(k) ==
    LET row == fetchone(SelectRows(items, "url", str(k)))
    IN  IF row = None THEN {Raise("ValueError")} ELSE {Return(row.metadata)}

get_primary_text(k) ==
    LET row == fetchone(SelectRows(primary_texts, "item_url", str(k)))
    IN  IF row = None THEN {Raise("ValueError")} ELSE {Return(row.primary_text)}

\* The handler of IOError builds its message from file_path, doc_url and
\* e.message: a Document operand makes the concatenation a TypeError, and
\* e.message exists on Python 2 exceptions only (AttributeError on Python 3).
get_document(k) ==
    LET row == fetchone(SelectRows(documents, "url", str(k)))
    IN  IF row = None THEN {Raise("ValueError")}
        ELSE IF files[row.path] # NoFile THEN {Return(files[row.path])}
        ELSE IF k.rep = "obj" THEN {Raise("TypeError")}
        ELSE {Raise("IOError"), Raise("AttributeError")}

\* ------------------------------------------------------ the add operations

\* Variant: the INSERT without the DELETE before it.
put_no_delete(table, col, row) == InsertRow(table, row)

\* DELETE the rows of the key, commit, INSERT the new row, commit.
put(table, col, row) == InsertRow(DeleteRows(table, col, row[col]), row)

\* The tokens that name no file and that no documents row mentions.
UnusedPaths ==
    {p \in Paths : /\ files[p] = NoFile
                   /\ \A i \in 1..Len(documents) : documents[i].path # p}

\* Variant: the token is returned without the os.path.exists check.
generate_filepath_no_check == Paths

\* __generate_filepath(): a uuid4 token whose path does not exist in file_dir
\* (on a collision the method calls itself for another token). The tokens
\* that appear nowhere in the state are interchangeable: the least of them
\* stands for all of them.
generate_filepath ==
    {p \in Paths : /\ files[p] = NoFile
                   /\ p \in UnusedPaths => \A q \in UnusedPaths : p <= q}

\* open(file_path, 'wb'); f.write(data)
write(fs, file_path, data) == [fs EXCEPT ![file_path] = data]

\* Variant: the files of the old rows are left in file_dir.
unlink_old_skipped(fs, rows) == fs

\* Variant: only the file of the first row is unlinked (fetchone in place of
\* fetchall).
unlink_old_first_row(fs, rows) ==
    [p \in Paths |-> IF rows # <<>> /\ p = Head(rows).path THEN NoFile ELSE fs[p]]

\* for row in c.fetchall(): unlink row[1] if it is a file
unlink_old(fs, rows) ==
    [p \in Paths |-> IF p \in PathsOf(rows) THEN NoFile ELSE fs[p]]

AddMethods == {"add_item", "add_document", "add_primary_text"}

\* The table that the statements of a method name.
TableOf(op) ==
    IF op \in {"has_item", "get_item", "add_item"} THEN "items"
    ELSE IF op \in {"has_document", "get_document", "add_document"} THEN "documents"
    ELSE "primary_texts"

\* How the entry of a key stands before a call or a fetch: no row, a row that has_<kind>
\* reports, or a row that it does not report.
EntryState(rows, has) ==
    IF rows = <<>> THEN "absent" ELSE IF has THEN "fresh" ELSE "stale"

\* How the entry that a call addresses stands when the call is made; a
\* documents row whose file does not exist is "unreadable".
Found(op, k) ==
    IF TableOf(op) = "items"
    THEN EntryState(SelectRows(items, "url", str(k)), has_item(k))
    ELSE IF TableOf(op) = "documents"
    THEN IF get_document(k) \subseteq {Return(d) : d \in Data} \cup {Raise("ValueError")}
         THEN EntryState(SelectRows(documents, "url", str(k)), has_document(k))
         ELSE "unreadable"
    ELSE EntryState(SelectRows(primary_texts, "item_url", str(k)), has_primary_text(k))

\* The call just made: its method, key and payload argument, how it ended,
\* and for an add the number of rows its DELETE removed and the file paths
\* those rows held.
Called(op, k, arg, r, replaced, old_file_paths) ==
    /\ conn = "open"
    /\ UNCHANGED <<disk, conn, clientvars, writers>>
    /\ nops' = nops + 1
    /\ ret' = [op |-> op, url |-> str(k), arg |-> arg,
               outcome |-> r.outcome, value |-> r.value,
               replaced |-> replaced, old_file_paths |-> old_file_paths,
               found |-> Found(op, k)]

Read(op, k, r) == Called(op, k, NoValue, r, 0, {})


add_item(k, item_metadata) ==
    /\ items' = put(items, "url",
                    [url |-> str(k), metadata |-> item_metadata,
                     datetime |-> now_iso_8601])
    /\ latest' = [latest EXCEPT !["items"][str(k)] = item_metadata]
    /\ Called("add_item", k, item_metadata, Return(NoValue),
              Len(SelectRows(items, "url", str(k))), {})
    /\ UNCHANGED <<documents, primary_texts, files, max_age, now>>

\* Variant: the INSERT of add_primary_text names the table items.
add_primary_text_into_items(k, primary_text) ==
    /\ primary_texts' = DeleteRows(primary_texts, "item_url", str(k))
    /\ items' = InsertRow(items, [url |-> str(k), metadata |-> primary_text,
                                  datetime |-> now_iso_8601])
    /\ latest' = [latest EXCEPT !["primary_texts"][str(k)] = primary_text]
    /\ Called("add_primary_text", k, primary_text, Return(NoValue),
              Len(SelectRows(primary_texts, "item_url", str(k))), {})
    /\ UNCHANGED <<documents, files, max_age, now>>

add_primary_text(k, primary_text) ==
    /\ primary_texts' = put(primary_texts, "item_url",
                            [item_url |-> str(k), primary_text |-> primary_text,
                             datetime |-> now_iso_8601])
    /\ latest' = [latest EXCEPT !["primary_texts"][str(k)] = primary_text]
    /\ Called("add_primary_text", k, primary_text, Return(NoValue),
              Len(SelectRows(primary_texts, "item_url", str(k))), {})
    /\ UNCHANGED <<items, documents, files, max_age, now>>

\* Where file_dir is not a directory, open(file_path, 'wb') raises before
\* anything is changed.
add_document(k, data) ==
    IF disk.file_dir # "dir"
    THEN /\ Called("add_document", k, data, Raise("IOError"), 0, {})
         /\ UNCHANGED <<items, documents, primary_texts, files, max_age, now,
                        latest>>
    ELSE
    \E file_path \in generate_filepath :
        /\ files' = unlink_old(write(files, file_path, data),
                               SelectRows(documents, "url", str(k)))
        /\ documents' = put(documents, "url",
                            [url |-> str(k), path |-> file_path,
                             datetime |-> now_iso_8601])
        /\ latest' = [latest EXCEPT !["documents"][str(k)] = data]
        /\ Called("add_document", k, data, Return(NoValue),
                  Len(SelectRows(documents, "url", str(k))),
                  PathsOf(SelectRows(documents, "url", str(k))))
        /\ UNCHANGED <<items, primary_texts, max_age, now>>

\* Variant: the DELETE is executed before the file is written.
documents_at_write_after_delete(url) == DeleteRows(documents, "url", url)

\* The documents table when add_document writes its file: no statement has
\* been executed on it yet.
documents_at_write(url) == documents

\* add_document where the file cannot be written (the disk is full, file_dir
\* is read-only): open raises and no file is made, or f.write raises and a
\* truncated file stays. The IOError leaves the method.
add_document_write_fails(k, data) ==
    /\ \E file_path \in generate_filepath :
         \/ files' = files
         \/ files' = write(files, file_path, "truncated")
    /\ documents' = documents_at_write(str(k))
    /\ Called("add_document", k, data, Raise("IOError"), 0, {})
    /\ UNCHANGED <<items, primary_texts, max_age, now, latest>>

\* ----------------------------------------------------------------- actions

\* The Cache objects that write to one cache_dir, each with its connection.
Writers == {"w1", "w2"}

\* A writer that is in no add method.
NoWriter ==
    [pc |-> "idle", op |-> "none", url |-> NoValue, arg |-> NoValue,
     file_path |-> NoValue, had_row |-> FALSE, collisions |-> 0]

NoWriters == [w \in Writers |-> NoWriter]

\* No fetch method of the Client has been called yet.
NoFetch == [op |-> "none", url |-> NoValue, force_download |-> FALSE,
            outcome |-> "return", value |-> NoValue, item_json |-> NoValue,
            requests |-> <<>>, cache_calls |-> <<>>, found |-> "absent",
            status_code |-> 0]

Init ==
    /\ items = <<>>
    /\ documents = <<>>
    /\ primary_texts = <<>>
    /\ files = [p \in Paths |-> NoFile]
    /\ max_age \in 0..MaxMaxAge
    /\ now = 0
    /\ nops = 0
    /\ ret = [op |-> "init", url |-> NoValue, arg |-> NoValue,
              outcome |-> "return", value |-> NoValue,
              replaced |-> 0, old_file_paths |-> {}, found |-> "absent"]
    /\ latest = [kind \in Kinds |-> [u \in Urls |-> NoValue]]
    /\ disk = [cache_dir |-> "dir", file_dir |-> "dir", database |-> "file",
               schema |-> Kinds]
    /\ conn = "open"
    /\ use_cache = TRUE
    /\ update_cache = TRUE
    /\ fetch = NoFetch
    /\ writers = NoWriters

cache == <<items, documents, primary_texts, files>>

\* The method calls made and the clock ticks elapsed so far.
Steps == nops + now

AddItem ==
    /\ Steps < MaxSteps
    /\ \E k \in KeyArgs, t \in Texts : add_item(k, t)

AddPrimaryText ==
    /\ Steps < MaxSteps
    /\ \E k \in KeyArgs, t \in Texts : add_primary_text(k, t)

AddDocument ==
    /\ Steps < MaxSteps
    /\ \E k \in KeyArgs, d \in Data : add_document(k, d)

HasItem ==
    /\ Steps < MaxSteps
    /\ \E k \in KeyArgs : Read("has_item", k, Return(has_item(k)))
    /\ UNCHANGED <<cache, max_age, now, latest>>

HasDocument ==
    /\ Steps < MaxSteps
    /\ \E k \in KeyArgs : Read("has_document", k, Return(has_document(k)))
    /\ UNCHANGED <<cache, max_age, now, latest>>

HasPrimaryText ==
    /\ Steps < MaxSteps
    /\ \E k \in KeyArgs :
         Read("has_primary_text", k, Return(has_primary_text(k)))
    /\ UNCHANGED <<cache, max_age, now, latest>>

GetItem ==
    /\ Steps < MaxSteps
    /\ \E k \in KeyArgs : \E r \in get_item(k) : Read("get_item", k, r)
    /\ UNCHANGED <<cache, max_age, now, latest>>

GetDocument ==
    /\ Steps < MaxSteps
    /\ \E k \in KeyArgs : \E r \in get_document(k) :
         Read("get_document", k, r)
    /\ UNCHANGED <<cache, max_age, now, latest>>

GetPrimaryText ==
    /\ Steps < MaxSteps
    /\ \E k \in KeyArgs : \E r \in get_primary_text(k) :
         Read("get_primary_text", k, r)
    /\ UNCHANGED <<cache, max_age, now, latest>>

\* Time passes between two calls.
Tick ==
    /\ now < MaxTime
    /\ Steps < MaxSteps
    /\ now' = now + 1
    /\ UNCHANGED <<cache, max_age, nops, ret, latest, disk, conn, clientvars, writers>>

\* The wall clock is set back (datetime.now reads the system clock).
ClockStepBack ==
    /\ \E t \in 0..(now - 1) : now' = t
    /\ UNCHANGED <<cache, max_age, nops, ret, latest, disk, conn, clientvars, writers>>

\* A blob file is removed from file_dir by something other than the Cache.
RemoveBlobOutOfBand ==
    /\ \E p \in Paths :
         /\ files[p] # NoFile
         /\ files' = [files EXCEPT ![p] = NoFile]
    /\ UNCHANGED <<items, documents, primary_texts, max_age, now, nops, ret, latest,
                   disk, conn, clientvars, writers>>

Next ==
    \/ AddItem \/ AddPrimaryText \/ AddDocument
    \/ HasItem \/ HasDocument \/ HasPrimaryText
    \/ GetItem \/ GetDocument \/ GetPrimaryText
    \/ Tick

Spec == Init /\ [][Next]_vars

\* The same calls with a wall clock that can be set back.
NextClock == Next \/ ClockStepBack

SpecClock == Init /\ [][NextClock]_vars

\* A few calls with a wall clock that can be set back at any time.
NextShortClock == (Steps < MaxClockSteps /\ Next) \/ ClockStepBack

SpecShortClock == Init /\ [][NextShortClock]_vars

\* The same calls with blob files that can disappear from file_dir.
NextBlobLoss == Next \/ RemoveBlobOutOfBand

SpecBlobLoss == Init /\ [][NextBlobLoss]_vars

\* A few calls with blob files that can disappear at any time.
NextShortBlobLoss == (Steps < MaxRepairSteps /\ Next) \/ RemoveBlobOutOfBand

SpecShortBlobLoss == Init /\ [][NextShortBlobLoss]_vars

AddDocumentWriteFails ==
    \E k \in KeyArgs, d \in Data : add_document_write_fails(k, d)

\* A few calls, some of them add_document calls that cannot write their file.
NextBlobWriteFail ==
    \/ Steps < MaxRepairSteps /\ Next
    \/ Steps < MaxRepairSteps /\ AddDocumentWriteFails

SpecBlobWriteFail == Init /\ [][NextBlobWriteFail]_vars

\* ------------------------------------------------- construction of a Cache

\* os.path.exists, os.path.isdir and os.path.isfile on what a path names:
\* nothing ("absent"), a directory ("dir") or a regular file ("file").
exists(entry) == entry # "absent"
isdir(entry) == entry = "dir"
isfile(entry) == entry = "file"

\* Variant: the table primary_texts is not created.
create_cache_database_two_tables == {"items", "documents"}

\* create_cache_database(): the tables that its CREATE TABLE statements make
\* in the new database file.
create_cache_database == {"items", "documents", "primary_texts"}

\* Variant: the database file is never found, and is made anew.
database_found_never(d) == FALSE

\* `if not os.path.isfile(self.database): self.create_cache_database()`
database_found(d) == isfile(d.database)

\* The call of Cache(cache_dir, max_age) just made, how it ended, and whether
\* it called create_cache_database.
Constructed(outcome, created) ==
    /\ nops' = nops + 1
    /\ ret' = [op |-> "__init__", url |-> NoValue,
               arg |-> IF created THEN "create_cache_database" ELSE NoValue,
               outcome |-> outcome, value |-> NoValue,
               replaced |-> 0, old_file_paths |-> {}, found |-> "absent"]
    /\ UNCHANGED <<now, latest, clientvars, writers>>

\* Cache.__init__(cache_dir, max_age). os.makedirs(file_dir) also makes
\* cache_dir, and raises if cache_dir is a regular file; file_dir can only
\* exist inside a directory, so the elif never raises.
Cache_init(new_max_age) ==
    IF ~exists(disk.file_dir) /\ isfile(disk.cache_dir)
    THEN /\ Constructed("OSError", FALSE)
         /\ UNCHANGED <<cache, max_age, disk, conn>>
    ELSE IF exists(disk.file_dir) /\ ~isdir(disk.cache_dir)
    THEN /\ Constructed("Exception", FALSE)
         /\ UNCHANGED <<cache, max_age, disk, conn>>
    ELSE /\ max_age' = new_max_age
         /\ conn' = "open"
         /\ disk' = [cache_dir |-> "dir",
                     file_dir |-> IF exists(disk.file_dir) THEN disk.file_dir
                                  ELSE "dir",
                     database |-> "file",
                     schema |-> IF database_found(disk) THEN disk.schema
                                ELSE create_cache_database]
         /\ items' = IF database_found(disk) THEN items ELSE <<>>
         /\ documents' = IF database_found(disk) THEN documents ELSE <<>>
         /\ primary_texts' = IF database_found(disk) THEN primary_texts ELSE <<>>
         /\ files' = files
         /\ Constructed("return", ~database_found(disk))

\* Before any Cache is constructed: cache_dir may be missing, a directory or
\* a regular file; inside a directory, the files path and the database file
\* may exist already, the database with its three tables and no rows.
InitDisk ==
    /\ items = <<>>
    /\ documents = <<>>
    /\ primary_texts = <<>>
    /\ files = [p \in Paths |-> NoFile]
    /\ max_age = 0
    /\ now = 0
    /\ nops = 0
    /\ ret = [op |-> "init", url |-> NoValue, arg |-> NoValue,
              outcome |-> "return", value |-> NoValue,
              replaced |-> 0, old_file_paths |-> {}, found |-> "absent"]
    /\ latest = [kind \in Kinds |-> [u \in Urls |-> NoValue]]
    /\ \E c \in {"absent", "dir", "file"} :
         \E f \in IF c = "dir" THEN {"absent", "dir", "file"} ELSE {"absent"} :
           \E d \in IF c = "dir" THEN {"absent", "file"} ELSE {"absent"} :
             disk = [cache_dir |-> c, file_dir |-> f, database |-> d,
                     schema |-> IF d = "file" THEN Kinds ELSE {}]
    /\ conn = "none"
    /\ use_cache = TRUE
    /\ update_cache = TRUE
    /\ fetch = NoFetch
    /\ writers = NoWriters

Construct ==
    /\ Steps < MaxSteps
    /\ \E new_max_age \in 0..MaxMaxAge : Cache_init(new_max_age)

\* Caches are constructed on cache_dir, again and again, and the last one
\* constructed is used.
NextConstruct == Construct \/ Next

SpecConstruct == InitDisk /\ [][NextConstruct]_vars

\* ------------------------------------------ a database file without a table

CacheMethods ==
    {"has_item", "has_document", "has_primary_text",
     "get_item", "get_document", "get_primary_text",
     "add_item", "add_document", "add_primary_text"}

\* A method whose table the database lacks: its first statement raises
\* sqlite3.OperationalError (no such table). add_document has written its
\* blob file by then.
CallOnMissingTable ==
    /\ Steps < MaxSteps
    /\ \E op \in CacheMethods, k \in KeyArgs, data \in Data :
         /\ TableOf(op) \notin disk.schema
         /\ IF op = "add_document" /\ isdir(disk.file_dir)
            THEN \E file_path \in generate_filepath :
                   /\ files' = write(files, file_path, data)
                   /\ Called(op, k, data, Raise("OperationalError"), 0, {})
            ELSE /\ files' = files
                 /\ Called(op, k, NoValue, Raise("OperationalError"), 0, {})
         /\ UNCHANGED <<items, documents, primary_texts, max_age, now, latest>>

\* cache_dir holds a database file that lacks at least one of the tables.
InitBadIndex ==
    /\ items = <<>>
    /\ documents = <<>>
    /\ primary_texts = <<>>
    /\ files = [p \in Paths |-> NoFile]
    /\ max_age = 0
    /\ now = 0
    /\ nops = 0
    /\ ret = [op |-> "init", url |-> NoValue, arg |-> NoValue,
              outcome |-> "return", value |-> NoValue,
              replaced |-> 0, old_file_paths |-> {}, found |-> "absent"]
    /\ latest = [kind \in Kinds |-> [u \in Urls |-> NoValue]]
    /\ \E f \in {"absent", "dir", "file"}, tables \in SUBSET Kinds :
         /\ tables # Kinds
         /\ disk = [cache_dir |-> "dir", file_dir |-> f, database |-> "file",
                    schema |-> tables]
    /\ conn = "none"
    /\ use_cache = TRUE
    /\ update_cache = TRUE
    /\ fetch = NoFetch
    /\ writers = NoWriters

\* Caches are constructed on that cache_dir and the methods that meet a
\* missing table are called.
NextBadIndex == Construct \/ CallOnMissingTable \/ Tick

SpecBadIndex == InitBadIndex /\ [][NextBadIndex]_vars

\* ---------------------------------------------------- the end of a Cache

\* Cache.__del__(): run by the interpreter when it collects the object, not
\* by a call of the program.
Del ==
    /\ conn = "open"
    /\ conn' = "closed"
    /\ UNCHANGED <<cache, max_age, now, nops, ret, latest, disk, clientvars, writers>>

\* The calls a program can make on a Cache: the constructor and the nine
\* methods. The class defines no other public method.
NextCaller == Construct \/ Next

NextTeardown == NextCaller \/ Del

SpecTeardown == InitDisk /\ [][NextTeardown]_vars

\* ------------------------------------------- the add methods, step by step

\* The rows a writer's add method has to replace.
RowsOf(op, url) ==
    IF op = "add_item" THEN SelectRows(items, "url", url)
    ELSE IF op = "add_document" THEN SelectRows(documents, "url", url)
    ELSE SelectRows(primary_texts, "item_url", url)

At(w, pc) == writers[w].pc = pc

Goto(w, pc) == writers' = [writers EXCEPT ![w].pc = pc]

\* An add method is entered. add_document generates its file path and writes
\* the file before its first statement on the index.
Begin(w) ==
    /\ At(w, "idle")
    /\ nops < MaxAdds
    /\ nops' = nops + 1
    /\ \E op \in AddMethods, url \in Urls :
         IF op = "add_document"
         THEN \E file_path \in generate_filepath, data \in Data :
                /\ files' = write(files, file_path, data)
                /\ writers' = [writers EXCEPT ![w] =
                                  [pc |-> "select", op |-> op, url |-> url,
                                   arg |-> data, file_path |-> file_path,
                                   had_row |-> RowsOf(op, url) # <<>>,
                                   collisions |-> 0]]
         ELSE \E text \in Texts :
                /\ files' = files
                /\ writers' = [writers EXCEPT ![w] =
                                  [pc |-> "delete", op |-> op, url |-> url,
                                   arg |-> text, file_path |-> NoValue,
                                   had_row |-> RowsOf(op, url) # <<>>,
                                   collisions |-> 0]]
    /\ UNCHANGED <<items, documents, primary_texts, max_age, now, ret, latest,
                   disk, conn, clientvars>>

\* add_document: SELECT the rows of the url and unlink their files.
SelectAndUnlink(w) ==
    /\ At(w, "select")
    /\ files' = unlink_old(files, RowsOf(writers[w].op, writers[w].url))
    /\ Goto(w, "delete")
    /\ UNCHANGED <<items, documents, primary_texts, max_age, now, nops, ret,
                   latest, disk, conn, clientvars>>

\* Variant: the DELETE removes no row.
DeleteAndCommit_nothing(table, col, url) == table

\* c.execute("DELETE ... WHERE url=?"); self.conn.commit()
DeleteAndCommit(table, col, url) == DeleteRows(table, col, url)

Delete(w) ==
    /\ At(w, "delete")
    /\ LET op == writers[w].op
           url == writers[w].url
       IN  /\ items' = IF op = "add_item"
                       THEN DeleteAndCommit(items, "url", url) ELSE items
           /\ documents' = IF op = "add_document"
                           THEN DeleteAndCommit(documents, "url", url)
                           ELSE documents
           /\ primary_texts' = IF op = "add_primary_text"
                               THEN DeleteAndCommit(primary_texts, "item_url", url)
                               ELSE primary_texts
    /\ Goto(w, "insert")
    /\ UNCHANGED <<files, max_age, now, nops, ret, latest, disk, conn, clientvars>>

\* c.execute("INSERT ..."); self.conn.commit(); c.close(): the method returns.
Insert(w) ==
    /\ At(w, "insert")
    /\ LET op == writers[w].op
           url == writers[w].url
           arg == writers[w].arg
       IN  /\ items' = IF op = "add_item"
                       THEN InsertRow(items, [url |-> url, metadata |-> arg,
                                              datetime |-> now_iso_8601])
                       ELSE items
           /\ documents' = IF op = "add_document"
                           THEN InsertRow(documents,
                                          [url |-> url, path |-> writers[w].file_path,
                                           datetime |-> now_iso_8601])
                           ELSE documents
           /\ primary_texts' = IF op = "add_primary_text"
                               THEN InsertRow(primary_texts,
                                              [item_url |-> url, primary_text |-> arg,
                                               datetime |-> now_iso_8601])
                               ELSE primary_texts
           /\ latest' = [latest EXCEPT ![TableOf(op)][url] = arg]
    /\ Goto(w, "idle")
    /\ UNCHANGED <<files, max_age, now, nops, ret, disk, conn, clientvars>>

\* The process of a writer dies inside an add method, or a statement of the
\* method raises: what has been committed and written stays.
Crash(w) ==
    /\ ~At(w, "idle")
    /\ Goto(w, "idle")
    /\ UNCHANGED <<cache, max_age, now, nops, ret, latest, disk, conn, clientvars>>

Step(w) == Begin(w) \/ SelectAndUnlink(w) \/ Delete(w) \/ Insert(w) \/ Crash(w)

\* max_age plays no part in the add methods.
InitWriters == Init /\ max_age = 0

\* One Cache object writes to cache_dir.
NextOneWriter == Step("w1")

SpecOneWriter == InitWriters /\ [][NextOneWriter]_vars

\* Two Cache objects on one cache_dir, in two threads or two processes: their
\* add methods interleave statement by statement.
NextTwoWriters == \E w \in Writers : Step(w)

SpecTwoWriters == InitWriters /\ [][NextTwoWriters]_vars

\* ------------------------------------------- an index with rows in excess

\* The rows that two interleaved add methods leave for one url (DELETE,
\* DELETE, INSERT, INSERT), the first with payload 1 and the second with 2.
TwoRows(kind, url) ==
    IF kind = "items"
    THEN <<[url |-> url, metadata |-> "t1", datetime |-> now_iso_8601],
           [url |-> url, metadata |-> "t2", datetime |-> now_iso_8601]>>
    ELSE IF kind = "documents"
    THEN <<[url |-> url, path |-> 1, datetime |-> now_iso_8601],
           [url |-> url, path |-> 2, datetime |-> now_iso_8601]>>
    ELSE <<[item_url |-> url, primary_text |-> "t1", datetime |-> now_iso_8601],
           [item_url |-> url, primary_text |-> "t2", datetime |-> now_iso_8601]>>

\* A Cache is constructed on a cache_dir in which some tables hold two rows
\* for the url u1, each documents row with its file.
InitTwoRows ==
    /\ max_age = 0
    /\ now = 0
    /\ nops = 0
    /\ ret = [op |-> "init", url |-> NoValue, arg |-> NoValue,
              outcome |-> "return", value |-> NoValue,
              replaced |-> 0, old_file_paths |-> {}, found |-> "absent"]
    /\ \E doubled \in SUBSET Kinds :
         /\ doubled # {}
         /\ items = IF "items" \in doubled THEN TwoRows("items", "u1") ELSE <<>>
         /\ documents = IF "documents" \in doubled
                        THEN TwoRows("documents", "u1") ELSE <<>>
         /\ primary_texts = IF "primary_texts" \in doubled
                            THEN TwoRows("primary_texts", "u1") ELSE <<>>
         /\ files = [p \in Paths |->
                       IF "documents" \in doubled /\ p = 1 THEN "b1"
                       ELSE IF "documents" \in doubled /\ p = 2 THEN "b2"
                       ELSE NoFile]
         /\ latest = [kind \in Kinds |-> [u \in Urls |->
                        IF kind \in doubled /\ u = "u1"
                        THEN IF kind = "documents" THEN "b2" ELSE "t2"
                        ELSE NoValue]]
    /\ disk = [cache_dir |-> "dir", file_dir |-> "dir", database |-> "file",
               schema |-> Kinds]
    /\ conn = "open"
    /\ use_cache = TRUE
    /\ update_cache = TRUE
    /\ fetch = NoFetch
    /\ writers = NoWriters

NextTwoRows == Steps < MaxRepairSteps /\ Next

SpecTwoRows == InitTwoRows /\ [][NextTwoRows]_vars

\* --------------------------------------- after an interrupted add_document

\* A Cache is constructed on a cache_dir in which an add_document for the url
\* u1 was cut short: its file (path 2) is written, and, where u1 had a row
\* (path 1), the call got as far as before the unlink loop ("select"), before
\* the DELETE ("delete") or before the INSERT ("insert").
InitInterrupted ==
    /\ max_age = 0
    /\ now = 0
    /\ nops = 0
    /\ ret = [op |-> "init", url |-> NoValue, arg |-> NoValue,
              outcome |-> "return", value |-> NoValue,
              replaced |-> 0, old_file_paths |-> {}, found |-> "absent"]
    /\ items = <<>>
    /\ primary_texts = <<>>
    /\ \E had_row \in BOOLEAN, pc \in {"select", "delete", "insert"} :
         /\ documents = IF had_row /\ pc # "insert"
                        THEN <<[url |-> "u1", path |-> 1, datetime |-> now_iso_8601]>>
                        ELSE <<>>
         /\ files = [p \in Paths |->
                       IF p = 1 /\ had_row /\ pc = "select" THEN "b1"
                       ELSE IF p = 2 THEN "b2"
                       ELSE NoFile]
         /\ latest = [kind \in Kinds |-> [u \in Urls |->
                        IF kind = "documents" /\ u = "u1" /\ had_row
                        THEN "b1" ELSE NoValue]]
    /\ disk = [cache_dir |-> "dir", file_dir |-> "dir", database |-> "file",
               schema |-> Kinds]
    /\ conn = "open"
    /\ use_cache = TRUE
    /\ update_cache = TRUE
    /\ fetch = NoFetch
    /\ writers = NoWriters

NextInterrupted == Steps < MaxRepairSteps /\ Next

SpecInterrupted == InitInterrupted /\ [][NextInterrupted]_vars

\* ------------------------------------- __generate_filepath, call by call

\* add_document is entered and calls __generate_filepath.
EnterGenerate(w) ==
    /\ At(w, "idle")
    /\ nops < MaxAdds
    /\ nops' = nops + 1
    /\ \E url \in Urls, data \in Data :
         writers' = [writers EXCEPT ![w] =
                        [pc |-> "generate", op |-> "add_document", url |-> url,
                         arg |-> data, file_path |-> NoValue,
                         had_row |-> RowsOf("add_document", url) # <<>>,
                         collisions |-> 0]]
    /\ UNCHANGED <<cache, max_age, now, ret, latest, disk, conn, clientvars>>

\* One call of __generate_filepath: uuid4 gives a token. If the path exists
\* the method calls itself, with no count of the calls made: only the
\* interpreter's limit on nested calls ends the recursion, with
\* RecursionError (RuntimeError on Python 2), which add_document lets through.
\* Otherwise the path is returned and add_document writes its file.
Draw(w) ==
    /\ At(w, "generate")
    /\ \E token \in Paths :
         IF files[token] # NoFile
         THEN IF writers[w].collisions + 1 >= RecursionLimit
              THEN /\ writers' = [writers EXCEPT ![w].pc = "idle",
                                                 ![w].collisions = @ + 1]
                   /\ ret' = [op |-> "add_document", url |-> writers[w].url,
                              arg |-> writers[w].arg,
                              outcome |-> "RecursionError", value |-> NoValue,
                              replaced |-> 0, old_file_paths |-> {},
                              found |-> Found("add_document", Key(writers[w].url))]
                   /\ files' = files
              ELSE /\ writers' = [writers EXCEPT ![w].collisions = @ + 1]
                   /\ UNCHANGED <<ret, files>>
         ELSE /\ writers' = [writers EXCEPT ![w].pc = "select",
                                            ![w].file_path = token]
              /\ files' = write(files, token, writers[w].arg)
              /\ ret' = ret
    /\ UNCHANGED <<items, documents, primary_texts, max_age, now, nops, latest,
                   disk, conn, clientvars>>

\* add_document of one Cache object, with every call of __generate_filepath
\* a step and any token a possible result of uuid4.
NextGenerate ==
    \/ EnterGenerate("w1") \/ Draw("w1")
    \/ SelectAndUnlink("w1") \/ Delete("w1") \/ Insert("w1")

SpecGenerate == InitWriters /\ [][NextGenerate]_vars

\* ------------------------------------------------------ equality of Caches

\* Ways of writing a cache_dir: with ~ for the home directory /home/u, in
\* full, in full with a separator at the end, and another directory.
Spellings == {"~/c", "/home/u/c", "/home/u/c/", "/tmp/c"}

\* os.path.expanduser(path)
expanduser(path) == IF path = "~/c" THEN "/home/u/c" ELSE path

\* os.path.join(path, name): a separator is put between the two unless path
\* ends with one.
join(path, name) ==
    IF path = "/home/u/c/" THEN path \o name ELSE path \o "/" \o name

\* The attributes that Cache.__init__(cache_dir, max_age) sets from its
\* arguments.
Cache_object(cache_dir, new_max_age) ==
    [max_age |-> new_max_age,
     cache_dir |-> expanduser(cache_dir),
     database |-> join(expanduser(cache_dir), "alveo_cache.db"),
     file_dir |-> join(expanduser(cache_dir), "files")]

Cache_objects ==
    {Cache_object(cache_dir, new_max_age) :
        cache_dir \in Spellings, new_max_age \in 0..MaxMaxAge}

\* Variant: the database paths are not compared.
eq_max_age_only(self, other) == self.max_age = other.max_age

\* Cache.__eq__(self, other)
eq(self, other) ==
    self.max_age = other.max_age /\ self.database = other.database

\* Cache.__ne__(self, other)
ne(self, other) == ~eq(self, other)

\* Two Cache objects are compared with == or with !=.
Compare ==
    /\ Steps < MaxSteps
    /\ \E self \in Cache_objects, other \in Cache_objects :
         \/ Called("__eq__", [rep |-> "str", url |-> NoValue], <<self, other>>,
                   Return(eq(self, other)), 0, {})
         \/ Called("__ne__", [rep |-> "str", url |-> NoValue], <<self, other>>,
                   Return(ne(self, other)), 0, {})
    /\ UNCHANGED <<cache, max_age, now, latest>>

\* Comparisons, between calls that change what the Cache holds.
NextCompare ==
    \/ Steps < MaxCompareSteps /\ Compare
    \/ Steps < MaxCompareSteps /\ AddItem
    \/ Steps < MaxCompareSteps /\ AddDocument

SpecCompare == Init /\ [][NextCompare]_vars

\* --------------------------------------------------------------- the Client

\* The item documents a server sends: one that names a primary text url, one
\* that holds the sentinel, one without the field.
ItemJsons == {"j_text", "j_notext", "j_nofield"}

\* What the server answers to a request for a url: a status and a body.
Responses(payloads) ==
    {[status_code |-> 200, content |-> p] : p \in payloads}
        \cup {[status_code |-> 500, content |-> "error"]}

\* Variant: the body is returned whatever the status.
api_request_unchecked(response) == Return(response.content)

\* api_request(url, raw=True): APIError unless the status is requests.codes.ok.
api_request(response) ==
    IF response.status_code # 200 THEN Raise("APIError")
    ELSE Return(response.content)

\* json.loads(item_json)['alveo:primary_text_url']
primary_text_url(item_json) ==
    CASE item_json = "j_text" -> "primary_text_url"
      [] item_json = "j_notext" -> "No primary text found"
      [] OTHER -> "KeyError"

\* Variant: only the missing field means that there is no primary text.
names_primary_text_sentinel_ignored(item_json) ==
    primary_text_url(item_json) # "KeyError"

\* get_primary_text goes on only past `except KeyError: return None` and
\* `if primary_text_url == 'No primary text found': return None`.
names_primary_text(item_json) ==
    /\ primary_text_url(item_json) # "KeyError"
    /\ primary_text_url(item_json) # "No primary text found"

\* Variant: force_download is not looked at.
consults_despite_force(force_download) == use_cache

\* Variant: use_cache is not looked at.
consults_without_use_cache(force_download) == ~force_download

\* `self.use_cache and not force_download and ...`: has_<kind> is called
\* only when both hold.
consults(force_download) == use_cache /\ ~force_download

\* Variant: the cached payload is never used.
served_from_cache_never(force_download, has) == FALSE

\* The whole condition of the if.
served_from_cache(force_download, has) == consults(force_download) /\ has

\* Variant: the payload is never written back.
writes_back_never == FALSE

\* Variant: the payload is written back whatever update_cache says.
writes_back_always == TRUE

\* `if self.update_cache:`
writes_back == update_cache

\* The name of a method of the Cache.
Method(verb, kind) == verb \o "_" \o kind

\* The if/else the three fetch methods share: kind is item, document or
\* primary_text, has and cached are what has_<kind> and get_<kind> answer,
\* responses what the server may answer if asked, add_oks whether add_<kind>
\* can complete. Each way the block can go lists the Cache methods called and
\* the requests made, the status of the response (0 without a request), how
\* the block ends, the payload, and whether add_<kind> has written it.
fetch_or_cache(kind, force_download, has, cached, responses, add_oks) ==
    LET asked == IF consults(force_download) THEN <<Method("has", kind)>> ELSE <<>>
        added == asked \o <<Method("add", kind)>>
    IN  IF served_from_cache(force_download, has)
        THEN {[cache_calls |-> asked \o <<Method("get", kind)>>, requests |-> <<>>,
               status_code |-> 0,
               outcome |-> c.outcome, value |-> c.value, write |-> FALSE] :
              c \in cached}
        ELSE UNION {
            LET r == api_request(response)
            IN  IF r.outcome # "return"
                THEN {[cache_calls |-> asked, requests |-> <<kind>>,
                       status_code |-> response.status_code,
                       outcome |-> r.outcome, value |-> NoValue, write |-> FALSE]}
                ELSE IF ~writes_back
                THEN {[cache_calls |-> asked, requests |-> <<kind>>,
                       status_code |-> response.status_code,
                       outcome |-> "return", value |-> r.value, write |-> FALSE]}
                ELSE {IF add_ok
                      THEN [cache_calls |-> added, requests |-> <<kind>>,
                            status_code |-> response.status_code,
                            outcome |-> "return", value |-> r.value,
                            write |-> TRUE]
                      ELSE [cache_calls |-> added, requests |-> <<kind>>,
                            status_code |-> response.status_code,
                            outcome |-> "OperationalError", value |-> NoValue,
                            write |-> FALSE] : add_ok \in add_oks} :
            response \in responses}

\* self.cache is None when neither use_cache nor update_cache is set: a call
\* of one of its methods is then an AttributeError.
on_cache(f) ==
    IF f.cache_calls # <<>> /\ conn # "open"
    THEN [cache_calls |-> <<>>, requests |-> <<>>, status_code |-> 0,
          outcome |-> "AttributeError", value |-> NoValue, write |-> FALSE]
    ELSE f

\* The fetch just made: its method, url and flag, how it ended, the item
\* document it read, the requests sent, the Cache methods called, how the
\* entry of the url stood before it, and the status of the last response.
Fetched(op, url, force_download, f, item_json, found) ==
    /\ nops' = nops + 1
    /\ fetch' = [op |-> op, url |-> url, force_download |-> force_download,
                 outcome |-> f.outcome, value |-> f.value, item_json |-> item_json,
                 requests |-> f.requests, cache_calls |-> f.cache_calls,
                 found |-> found, status_code |-> f.status_code]
    /\ UNCHANGED <<max_age, now, ret, disk, conn, use_cache, update_cache, writers>>

\* The force_download that get_primary_text hands to self.get_item for the
\* metadata: none, so the default False (variant: its own flag passed on).
item_force_download_passed_on(force_download) == force_download

item_force_download(force_download) == FALSE

\* Client.get_item(item_url, force_download); the Item it returns wraps the
\* item document, which stands for it here.
Client_get_item(k, force_download, responses, add_oks) ==
    LET item_url == str(k)
        key == [rep |-> "str", url |-> item_url]
    IN  \E f0 \in fetch_or_cache("item", force_download, has_item(key),
                                 get_item(key), responses, add_oks) :
          LET f == on_cache(f0)
          IN  /\ items' = IF f.write
                          THEN put(items, "url",
                                   [url |-> item_url, metadata |-> f.value,
                                    datetime |-> now_iso_8601])
                          ELSE items
              /\ latest' = IF f.write
                           THEN [latest EXCEPT !["items"][item_url] = f.value]
                           ELSE latest
              /\ Fetched("get_item", item_url, force_download, f, f.value,
                         EntryState(SelectRows(items, "url", item_url),
                                    has_item(key)))
              /\ UNCHANGED <<documents, primary_texts, files>>

\* Client.get_document(doc_url, force_download)
Client_get_document(k, force_download, responses, add_oks) ==
    LET doc_url == str(k)
        key == [rep |-> "str", url |-> doc_url]
    IN  \E f0 \in fetch_or_cache("document", force_download, has_document(key),
                                 get_document(key), responses, add_oks) :
          LET f == on_cache(f0)
          IN  \E file_path \in IF f.write THEN generate_filepath ELSE {0} :
                /\ files' = IF f.write
                            THEN unlink_old(write(files, file_path, f.value),
                                            SelectRows(documents, "url", doc_url))
                            ELSE files
                /\ documents' = IF f.write
                                THEN put(documents, "url",
                                         [url |-> doc_url, path |-> file_path,
                                          datetime |-> now_iso_8601])
                                ELSE documents
                /\ latest' = IF f.write
                             THEN [latest EXCEPT !["documents"][doc_url] = f.value]
                             ELSE latest
                /\ Fetched("get_document", doc_url, force_download, f, NoValue,
                           EntryState(SelectRows(documents, "url", doc_url),
                                      has_document(key)))
                /\ UNCHANGED <<items, primary_texts>>

\* Client.get_primary_text(item_url, force_download): self.get_item(item_url)
\* for the metadata (never forced), the two early returns of None, then the
\* if/else on the primary text, which is cached under item_url.
Client_get_primary_text(k, force_download, item_responses, responses, add_item_oks, add_oks) ==
    LET item_url == str(k)
        key == [rep |-> "str", url |-> item_url]
    IN  \E i0 \in fetch_or_cache("item", item_force_download(force_download),
                                 has_item(key), get_item(key),
                                 item_responses, add_item_oks) :
          LET i == on_cache(i0)
              goes_on == i.outcome = "return" /\ names_primary_text(i.value)
          IN  \E t0 \in IF goes_on
                        THEN fetch_or_cache("primary_text", force_download,
                                            has_primary_text(key),
                                            get_primary_text(key), responses,
                                            add_oks)
                        ELSE {i} :
                LET t == on_cache(t0)
                    f == IF i.outcome # "return" THEN i
                         ELSE IF ~goes_on
                         THEN [i EXCEPT !.value = NoValue, !.write = FALSE]
                         ELSE [t EXCEPT !.cache_calls = i.cache_calls \o @,
                                        !.requests = i.requests \o @]
                IN  /\ items' = IF i.write
                                THEN put(items, "url",
                                         [url |-> item_url, metadata |-> i.value,
                                          datetime |-> now_iso_8601])
                                ELSE items
                    /\ primary_texts' =
                           IF goes_on /\ f.write
                           THEN put(primary_texts, "item_url",
                                    [item_url |-> item_url,
                                     primary_text |-> f.value,
                                     datetime |-> now_iso_8601])
                           ELSE primary_texts
                    /\ latest' = [latest EXCEPT
                                    !["items"][item_url] =
                                        IF i.write THEN i.value ELSE @,
                                    !["primary_texts"][item_url] =
                                        IF goes_on /\ f.write THEN f.value ELSE @]
                    /\ Fetched("get_primary_text", item_url, force_download, f,
                               IF i.outcome = "return" THEN i.value ELSE NoValue,
                               EntryState(SelectRows(primary_texts, "item_url",
                                                     item_url),
                                          has_primary_text(key)))
                    /\ UNCHANGED <<documents, files>>

\* Client(use_cache, update_cache, ...): the Cache is constructed when one of
\* the two is set, and self.cache is None otherwise.
InitClient ==
    /\ items = <<>>
    /\ documents = <<>>
    /\ primary_texts = <<>>
    /\ files = [p \in Paths |-> NoFile]
    /\ max_age \in 0..MaxMaxAge
    /\ now = 0
    /\ nops = 0
    /\ ret = [op |-> "init", url |-> NoValue, arg |-> NoValue,
              outcome |-> "return", value |-> NoValue,
              replaced |-> 0, old_file_paths |-> {}, found |-> "absent"]
    /\ latest = [kind \in Kinds |-> [u \in Urls |-> NoValue]]
    /\ use_cache \in BOOLEAN
    /\ update_cache \in BOOLEAN
    /\ conn = IF use_cache \/ update_cache THEN "open" ELSE "none"
    /\ disk = IF use_cache \/ update_cache
              THEN [cache_dir |-> "dir", file_dir |-> "dir", database |-> "file",
                    schema |-> Kinds]
              ELSE [cache_dir |-> "absent", file_dir |-> "absent",
                    database |-> "absent", schema |-> {}]
    /\ fetch = NoFetch
    /\ writers = NoWriters

\* The urls a fetch method is called with (an Item or Document object in
\* their place is turned into its url by str() before anything else).
UrlArgs == {k \in KeyArgs : k.rep = "str"}

ClientGetItem ==
    /\ Steps < MaxFetches
    /\ \E k \in UrlArgs, force_download \in BOOLEAN :
         Client_get_item(k, force_download, Responses(ItemJsons), {TRUE})

ClientGetDocument ==
    /\ Steps < MaxFetches
    /\ \E k \in UrlArgs, force_download \in BOOLEAN :
         Client_get_document(k, force_download, Responses(Data), {TRUE})

ClientGetPrimaryText ==
    /\ Steps < MaxFetches
    /\ \E k \in UrlArgs, force_download \in BOOLEAN :
         Client_get_primary_text(k, force_download, Responses(ItemJsons),
                                 Responses(Texts), {TRUE}, {TRUE})

\* The fetch methods of a Client and the passing of time.
NextClient ==
    \/ ClientGetItem \/ ClientGetDocument \/ ClientGetPrimaryText
    \/ Tick

SpecClient == InitClient /\ [][NextClient]_vars

\* The same Client with a wall clock that can be set back.
NextClientClock ==
    \/ Steps < MaxClockSteps /\ NextClient
    \/ ClockStepBack

SpecClientClock == InitClient /\ [][NextClientClock]_vars

\* The same Client with blob files that can disappear from file_dir.
NextClientBlobLoss ==
    \/ Steps < MaxRepairSteps /\ NextClient
    \/ RemoveBlobOutOfBand

SpecClientBlobLoss == InitClient /\ [][NextClientBlobLoss]_vars

\* The fetch methods where add_<kind> cannot complete (the database is locked
\* or the disk is full): its sqlite3 error is raised at the first statement.
ClientGetItemAddFails ==
    /\ Steps < MaxFetches
    /\ \E k \in UrlArgs, force_download \in BOOLEAN :
         Client_get_item(k, force_download, Responses(ItemJsons), {FALSE})

ClientGetDocumentAddFails ==
    /\ Steps < MaxFetches
    /\ \E k \in UrlArgs, force_download \in BOOLEAN :
         Client_get_document(k, force_download, Responses(Data), {FALSE})

ClientGetPrimaryTextAddFails ==
    /\ Steps < MaxFetches
    /\ \E k \in UrlArgs, force_download \in BOOLEAN :
         Client_get_primary_text(k, force_download, Responses(ItemJsons),
                                 Responses(Texts), BOOLEAN, {FALSE})

NextWriteFail ==
    \/ NextClient
    \/ ClientGetItemAddFails
    \/ ClientGetDocumentAddFails
    \/ ClientGetPrimaryTextAddFails

SpecWriteFail == InitClient /\ [][NextWriteFail]_vars

\* ------------------------------------------------------------------ claims

HasRow(table, col, u) == SelectRows(table, col, u) # <<>>

\* C1: once add_item(url, text) has been called, get_item(url) returns the
\* text of the last such call, whatever has been done to other keys and
\* kinds since; the same for add_primary_text and get_primary_text.
C1_RoundTripText ==
    \A k \in KeyArgs :
        /\ latest["items"][str(k)] # NoValue =>
               get_item(k) = {Return(latest["items"][str(k)])}
        /\ latest["primary_texts"][str(k)] # NoValue =>
               get_primary_text(k) = {Return(latest["primary_texts"][str(k)])}

\* A get_item that returned a text while the table holds a second key.
C1_Witness ==
    /\ ret.op = "get_item"
    /\ ret.outcome = "return"
    /\ ret.value = latest["items"][ret.url]
    /\ Len(items) = 2
    /\ items[2].url = ret.url

\* C2: once add_document(url, data) has been called, get_document(url)
\* returns the data of the last such call, read from the file the row names.
C2_RoundTripDocument ==
    \A k \in KeyArgs :
        latest["documents"][str(k)] # NoValue =>
            get_document(k) = {Return(latest["documents"][str(k)])}

\* A get_document that returned the data while another document is cached.
C2_Witness ==
    /\ ret.op = "get_document"
    /\ ret.outcome = "return"
    /\ ret.value = latest["documents"][ret.url]
    /\ Len(documents) = 2
    /\ documents[1].url = ret.url

\* C3: every table holds at most one row per key.
C3_OneRowPerKey ==
    \A u \in Urls :
        /\ Len(SelectRows(items, "url", u)) <= 1
        /\ Len(SelectRows(documents, "url", u)) <= 1
        /\ Len(SelectRows(primary_texts, "item_url", u)) <= 1

\* An add_item, an add_document or an add_primary_text of a key that had a row.
C3_Witness ==
    /\ ret.op \in {"add_item", "add_primary_text"}
    /\ ret.replaced = 1
    /\ latest["documents"] # [u \in Urls |-> NoValue]

\* C4: after an add_document of a url that already had a row, the table
\* holds exactly one row for the url, get_document returns the new data and
\* the file of the replaced row does not exist.
C4_ReplaceDocument ==
    (ret.op = "add_document" /\ ret.replaced >= 1) =>
        /\ Len(SelectRows(documents, "url", ret.url)) = 1
        /\ get_document(Key(ret.url)) = {Return(ret.arg)}
        /\ \A p \in ret.old_file_paths : files[p] = NoFile

\* An add_document(url, b2) that replaced the row written by add_document(url, b1).
C4_Witness ==
    /\ ret.op = "add_document"
    /\ ret.replaced = 1
    /\ ret.old_file_paths # {}
    /\ ret.arg = "b2"
    /\ nops = 2
    /\ Len(documents) = 1

\* C5: the files of file_dir and the documents rows correspond one to one:
\* the path of every row names a file, every file is named by exactly one
\* row, there are as many files as cached document urls, and every file
\* holds the data last added for the url of its row.
C5_BlobIndexConsistent ==
    /\ \A i \in 1..Len(documents) :
           /\ files[documents[i].path] # NoFile
           /\ files[documents[i].path] = latest["documents"][documents[i].url]
    /\ \A p \in Paths :
           files[p] # NoFile =>
               Cardinality({i \in 1..Len(documents) : documents[i].path = p}) = 1
    /\ Cardinality({p \in Paths : files[p] # NoFile})
           = Cardinality({u \in Urls : latest["documents"][u] # NoValue})

\* Two documents cached, one of them re-added.
C5_Witness ==
    /\ ret.op = "add_document"
    /\ ret.replaced = 1
    /\ Len(documents) = 2
    /\ Cardinality({p \in Paths : files[p] # NoFile}) = 2

\* C6: with max_age = 0 has_item, has_document and has_primary_text are
\* true of every key that has a row, whatever the row's recorded time is
\* relative to the clock.
C6_NeverExpires ==
    max_age = 0 =>
        \A u \in Urls :
            /\ HasRow(items, "url", u) => has_item(Key(u))
            /\ HasRow(documents, "url", u) => has_document(Key(u))
            /\ HasRow(primary_texts, "item_url", u) => has_primary_text(Key(u))

Age(table, col, u) == now - parse(Head(SelectRows(table, col, u)).datetime)

\* C7: with max_age > 0, has_<kind>(url) of a key that has a row is true
\* exactly while the row's age, now minus its recorded time, is at most
\* max_age.
C7_AgeExpiry ==
    max_age > 0 =>
        \A u \in Urls :
            /\ HasRow(items, "url", u) =>
                   (has_item(Key(u)) <=> Age(items, "url", u) <= max_age)
            /\ HasRow(documents, "url", u) =>
                   (has_document(Key(u)) <=> Age(documents, "url", u) <= max_age)
            /\ HasRow(primary_texts, "item_url", u) =>
                   (has_primary_text(Key(u))
                        <=> Age(primary_texts, "item_url", u) <= max_age)

\* For a key never added to a kind, has_<kind> is false and get_<kind> raises
\* the ValueError of a key that is not in the cache.
MissOfNeverAdded ==
    \A k \in KeyArgs :
        /\ latest["items"][str(k)] = NoValue =>
               ~has_item(k) /\ get_item(k) = {Raise("ValueError")}
        /\ latest["documents"][str(k)] = NoValue =>
               ~has_document(k) /\ get_document(k) = {Raise("ValueError")}
        /\ latest["primary_texts"][str(k)] = NoValue =>
               ~has_primary_text(k) /\ get_primary_text(k) = {Raise("ValueError")}

\* A get_<kind> that raised ValueError changed no table and no file.
FailedGetChangesNothing ==
    (/\ nops' = nops + 1
     /\ ret'.op \in {"get_item", "get_document", "get_primary_text"}
     /\ ret'.outcome = "ValueError") => cache' = cache

\* C8: for a url never added to a kind, has_<kind>(url) is false and
\* get_<kind>(url) raises the not-found error and returns no payload, and
\* the failed get leaves the tables and the files as they were.
C8_MissSemantics == []MissOfNeverAdded /\ [][FailedGetChangesNothing]_vars

\* A get_document of a never-added url that raised, while the documents hold
\* another url and the items hold this one.
C8_Witness ==
    /\ ret.op = "get_document"
    /\ ret.outcome = "ValueError"
    /\ ret.value = NoValue
    /\ ~has_document(Key(ret.url))
    /\ Len(documents) = 1
    /\ HasRow(items, "url", ret.url)

\* What has_item and get_item answer is the same before and after the step.
SameItems == \A u \in Urls : LET k == Key(u) IN
    has_item(k)' = has_item(k) /\ get_item(k)' = get_item(k)

SameDocuments == \A u \in Urls : LET k == Key(u) IN
    has_document(k)' = has_document(k) /\ get_document(k)' = get_document(k)

SamePrimaryTexts == \A u \in Urls : LET k == Key(u) IN
    /\ has_primary_text(k)' = has_primary_text(k)
    /\ get_primary_text(k)' = get_primary_text(k)

\* C9: an add_<kind> leaves what has_* and get_* answer for the two other
\* kinds as it was, for every key.
C9_IndependentNamespaces ==
    [][nops' = nops + 1 =>
        /\ ret'.op = "add_item" => SameDocuments /\ SamePrimaryTexts
        /\ ret'.op = "add_document" => SameItems /\ SamePrimaryTexts
        /\ ret'.op = "add_primary_text" => SameItems /\ SameDocuments]_vars

\* A key added to the items only: the two other kinds do not have it.
C9_Witness ==
    /\ ret.op = "add_item"
    /\ has_item(Key(ret.url))
    /\ ~has_document(Key(ret.url))
    /\ ~has_primary_text(Key(ret.url))
    /\ Len(documents) = 1
    /\ Len(primary_texts) = 1

\* C10: a get_document of a url whose row names a file that does not exist
\* fails with the storage error (IOError): it raises neither the not-found
\* error nor anything else, and returns no content.
C10_MissingBlobIsStorageError ==
    [][(/\ nops' = nops + 1
        /\ ret'.op = "get_document"
        /\ HasRow(documents, "url", ret'.url)
        /\ files[Head(SelectRows(documents, "url", ret'.url)).path] = NoFile)
       => ret'.outcome = "IOError"]_vars

\* ------------------------------------------------ claims on construction

\* The step is a completed Cache(cache_dir, max_age).
ConstructStep ==
    nops' = nops + 1 /\ ret'.op = "__init__" /\ ret'.outcome = "return"

\* What has_<kind> and get_<kind> answer for every url with a row is what
\* they answered before the step, and has_<kind> answers True.
EntriesKept ==
    \A u \in Urls :
        /\ HasRow(items, "url", u)
             => has_item(Key(u))' /\ get_item(Key(u))' = get_item(Key(u))
        /\ HasRow(documents, "url", u)
             => /\ has_document(Key(u))'
                /\ get_document(Key(u))' = get_document(Key(u))
        /\ HasRow(primary_texts, "item_url", u)
             => /\ has_primary_text(Key(u))'
                /\ get_primary_text(Key(u))' = get_primary_text(Key(u))

\* C19: a Cache constructed on a cache_dir that holds the database file and
\* the files directory reuses them: nothing on disk is recreated or cleared,
\* and every entry added before is reported by has_* and returned unchanged by
\* get_* through the new instance.
C19_IdempotentConstruction ==
    [][nops' = nops + 1 /\ ret'.op = "__init__"
         /\ isfile(disk.database) /\ isdir(disk.file_dir)
         => /\ ret'.outcome = "return"
            /\ ret'.arg = NoValue
            /\ disk' = disk
            /\ cache' = cache
            /\ EntriesKept]_vars

\* A second Cache has been constructed on a cache_dir that holds a document,
\* and returns it.
C19_Witness ==
    /\ ret.op = "__init__"
    /\ ret.outcome = "return"
    /\ ret.arg = NoValue
    /\ \E u \in Urls : /\ latest["documents"][u] \in Data
                       /\ has_document(Key(u))
                       /\ get_document(Key(u)) = {Return(latest["documents"][u])}

C21_NotADirectoryFails ==
    [][nops' = nops + 1 /\ ret'.op = "__init__"
         /\ (isfile(disk.cache_dir) \/ isfile(disk.file_dir))
         => /\ ret'.outcome # "return"
            /\ disk' = disk]_vars

\* C22: constructing a Cache on a database file that lacks a table raises at
\* construction. The constructor only opens the file: the error comes with
\* the first statement on the missing table.
C22_BadIndexFailsAtConstruction ==
    [][nops' = nops + 1 /\ ret'.op = "__init__"
         /\ isfile(disk.database) /\ disk.schema # Kinds
         => ret'.outcome # "return"]_vars

\* ------------------------------------------------------ claims on equality

\* The directory that a cache_dir attribute names.
Root(cache_dir) == IF cache_dir = "/tmp/c" THEN "/tmp/c" ELSE "/home/u/c"

SameSettings(self, other) ==
    self.max_age = other.max_age /\ Root(self.cache_dir) = Root(other.cache_dir)

Obj(u) == [rep |-> "obj", url |-> u]

\* C24: in every state each has_ and get_ operation gives for an object
\* whose string form is url the outcomes it gives for the string url, also
\* when get_document cannot read the file of the row.
C24_KeyNormalization ==
    \A u \in Urls :
        /\ has_item(Obj(u)) = has_item(Key(u))
        /\ has_document(Obj(u)) = has_document(Key(u))
        /\ has_primary_text(Obj(u)) = has_primary_text(Key(u))
        /\ get_item(Obj(u)) = get_item(Key(u))
        /\ get_primary_text(Obj(u)) = get_primary_text(Key(u))
        /\ get_document(Obj(u)) = get_document(Key(u))

\* ------------------------------------------------------- claims on teardown

\* C25: whenever the connection of a Cache is open, some call the program
\* can make on the Cache closes it.
C25_ExplicitClose ==
    conn = "open" => ENABLED (NextCaller /\ conn' = "closed")

\* ------------------------------------------------------ claims on the Client

InSeq(x, seq) == \E i \in 1..Len(seq) : seq[i] = x

\* The step is a call of the fetch method op.
FetchStep(op) == nops' = nops + 1 /\ fetch'.op = op

\* The fetch of this step ended as result, an element of what get_<kind> gives.
FetchGave(results) ==
    results = {[outcome |-> fetch'.outcome, value |-> fetch'.value]}

\* The condition of the hit path, on the state before the fetch.
HitCondition(has) == use_cache /\ ~fetch'.force_download /\ has

ItemHit ==
    FetchStep("get_item") /\ HitCondition(has_item(Key(fetch'.url)))
        => /\ FetchGave(get_item(Key(fetch'.url)))
           /\ fetch'.requests = <<>>
           /\ cache' = cache

DocumentHit ==
    FetchStep("get_document") /\ HitCondition(has_document(Key(fetch'.url)))
        => /\ FetchGave(get_document(Key(fetch'.url)))
           /\ fetch'.requests = <<>>
           /\ cache' = cache

PrimaryTextHit ==
    FetchStep("get_primary_text")
        /\ HitCondition(has_primary_text(Key(fetch'.url)))
        => /\ FetchGave(get_primary_text(Key(fetch'.url)))
           /\ ~InSeq("primary_text", fetch'.requests)
           /\ cache' = cache

\* C11 as stated: when use_cache is true, force_download false and
\* has_<kind>(url) true, each of the three fetch methods returns the cached
\* payload, sends no request for it and leaves the cache unchanged. Not so
\* for get_primary_text: item metadata without a primary text url makes it
\* return None whatever the primary_texts namespace holds.
C11_HitPath == [][ItemHit /\ DocumentHit /\ PrimaryTextHit]_vars

PrimaryTextHitWithUrl ==
    FetchStep("get_primary_text")
        /\ HitCondition(has_primary_text(Key(fetch'.url)))
        /\ names_primary_text(fetch'.item_json)
        => /\ FetchGave(get_primary_text(Key(fetch'.url)))
           /\ ~InSeq("primary_text", fetch'.requests)
           /\ primary_texts' = primary_texts
           /\ documents' = documents
           /\ files' = files
           /\ ~InSeq("item", fetch'.requests) => items' = items

\* C11 amended: get_item and get_document as stated; get_primary_text
\* returns the cached primary text, without a request for it, when moreover
\* the metadata that its get_item step obtained names a primary text url, and
\* it leaves the cache unchanged except for the items entry of url, which that
\* step writes if it had to request the metadata.
C11_HitPathAmended == [][ItemHit /\ DocumentHit /\ PrimaryTextHitWithUrl]_vars

\* A primary text has been served from the cache without any request.
C11_Witness ==
    /\ fetch.op = "get_primary_text"
    /\ InSeq("get_primary_text", fetch.cache_calls)
    /\ fetch.requests = <<>>
    /\ fetch.outcome = "return"
    /\ fetch.value \in Texts

\* The fetch of this step requested the payload of kind and returned it.
Downloaded(op, kind) ==
    /\ FetchStep(op)
    /\ InSeq(kind, fetch'.requests)
    /\ fetch'.outcome = "return"

\* After the step the Cache reports the entry of the fetched url and returns
\* the fetched payload for it.
CachedAfterwards ==
    \A u \in Urls : u = fetch'.url =>
        /\ Downloaded("get_item", "item")
             => has_item(Key(u))' /\ get_item(Key(u))' = {Return(fetch'.value)}
        /\ Downloaded("get_document", "document")
             => /\ has_document(Key(u))'
                /\ get_document(Key(u))' = {Return(fetch'.value)}
        /\ Downloaded("get_primary_text", "primary_text")
             => /\ has_primary_text(Key(u))'
                /\ get_primary_text(Key(u))' = {Return(fetch'.value)}

\* The fetch before this step was a download of the same kind for the same
\* url, and this one is not forced.
FetchedAgain(op, kind) ==
    /\ FetchStep(op)
    /\ fetch.op = op
    /\ fetch.url = fetch'.url
    /\ InSeq(kind, fetch.requests)
    /\ fetch.outcome = "return"
    /\ ~fetch'.force_download

ServedAgain(op, kind) ==
    FetchedAgain(op, kind)
        => /\ fetch'.requests = <<>>
           /\ fetch'.outcome = "return"
           /\ fetch'.value = fetch.value

\* C12: with update_cache true, once a fetch has returned a payload from the
\* transport, has_<kind>(url) is true and get_<kind>(url) is that payload; and
\* with use_cache true the next fetch of that url, if not forced, returns the
\* same payload without any request.
C12_MissPathWriteBack ==
    [][/\ update_cache => CachedAfterwards
       /\ update_cache /\ use_cache
            => /\ ServedAgain("get_item", "item")
               /\ ServedAgain("get_document", "document")
               /\ ServedAgain("get_primary_text", "primary_text")]_vars

\* A document is served from the cache that the fetch before has written.
C12_Witness ==
    /\ update_cache
    /\ fetch.op = "get_document"
    /\ fetch.cache_calls = <<"has_document", "get_document">>
    /\ fetch.value \in Data
    /\ latest["documents"][fetch.url] = fetch.value

\* The row of key in table carries the current time.
StampedNow(table, col, key) ==
    /\ Len(SelectRows(table, col, key)) = 1
    /\ parse(Head(SelectRows(table, col, key)).datetime) = now

\* A forced fetch that returns with update_cache set leaves the entry of the
\* url holding the fetched payload, stamped with the current time and
\* reported by has_<kind>.
ForcedRefresh ==
    \A u \in Urls : u = fetch'.url /\ fetch'.force_download
                      /\ fetch'.outcome = "return" /\ update_cache =>
        /\ FetchStep("get_item")
             => /\ get_item(Key(u))' = {Return(fetch'.value)}
                /\ StampedNow(items, "url", u)'
                /\ has_item(Key(u))'
        /\ FetchStep("get_document")
             => /\ get_document(Key(u))' = {Return(fetch'.value)}
                /\ StampedNow(documents, "url", u)'
                /\ has_document(Key(u))'
        /\ FetchStep("get_primary_text") /\ names_primary_text(fetch'.item_json)
             => /\ get_primary_text(Key(u))' = {Return(fetch'.value)}
                /\ StampedNow(primary_texts, "item_url", u)'
                /\ has_primary_text(Key(u))'

ForcedGoesToTransport(op) ==
    FetchStep(op) /\ fetch'.force_download => fetch'.requests # <<>>

ForcedRequests(op, kind) ==
    FetchStep(op) /\ fetch'.force_download => InSeq(kind, fetch'.requests)

ReadMethods ==
    {Method(verb, kind) : verb \in {"has", "get"},
                          kind \in {"item", "document", "primary_text"}}

\* The last fetch returned a payload and the Cache holds it under the url.
Written(op, kind, results) ==
    fetch.op = op /\ fetch.outcome = "return" /\ fetch.value # NoValue
        => /\ InSeq(Method("add", kind), fetch.cache_calls)
           /\ results = {Return(fetch.value)}

\* C14: with use_cache false a fetch calls no has_* and no get_* of the Cache
\* and sends a request; with update_cache true a fetch that returns a payload
\* has still written it to the Cache.
C14_ReadToggle ==
    ~use_cache =>
        /\ \A m \in ReadMethods : ~InSeq(m, fetch.cache_calls)
        /\ fetch.op # "none" => fetch.requests # <<>>
        /\ update_cache =>
             /\ Written("get_item", "item", get_item(Key(fetch.url)))
             /\ Written("get_document", "document", get_document(Key(fetch.url)))
             /\ Written("get_primary_text", "primary_text",
                        get_primary_text(Key(fetch.url)))

\* With use_cache false a second fetch of a primary text has requested the
\* metadata and the text again and has written both.
C14_Witness ==
    /\ ~use_cache
    /\ update_cache
    /\ fetch.op = "get_primary_text"
    /\ fetch.found = "fresh"
    /\ ~fetch.force_download
    /\ fetch.requests = <<"item", "primary_text">>
    /\ fetch.cache_calls = <<"add_item", "add_primary_text">>
    /\ get_primary_text(Key(fetch.url)) = {Return(fetch.value)}

\* C15: with update_cache false no call of a fetch method changes the Cache:
\* rows, timestamps and blob files stay as they were.
C15_WriteToggle == [][~update_cache /\ nops' = nops + 1 => cache' = cache]_vars

\* With update_cache false a document has been downloaded and the Cache is
\* still empty.
C15_Witness ==
    /\ ~update_cache
    /\ use_cache
    /\ fetch.op = "get_document"
    /\ fetch.cache_calls = <<"has_document">>
    /\ fetch.value \in Data
    /\ documents = <<>>
    /\ \A p \in Paths : files[p] = NoFile

PrimaryTextMethods == {Method(verb, "primary_text") : verb \in {"has", "get", "add"}}

\* The metadata read by the last get_primary_text has no primary text url
\* field or holds the sentinel.
NoPrimaryText ==
    /\ fetch.op = "get_primary_text"
    /\ fetch.item_json \in ItemJsons
    /\ primary_text_url(fetch.item_json) \in {"KeyError", "No primary text found"}

\* C16: when the item metadata has no primary text url field or holds the
\* sentinel, get_primary_text returns None, calls none of has_primary_text,
\* get_primary_text and add_primary_text, and requests no primary text, for
\* every use_cache, update_cache and force_download.
C16_NoPrimaryTextRule ==
    NoPrimaryText =>
        /\ fetch.outcome = "return"
        /\ fetch.value = NoValue
        /\ \A m \in PrimaryTextMethods : ~InSeq(m, fetch.cache_calls)
        /\ ~InSeq("primary_text", fetch.requests)

\* A forced get_primary_text has returned None for the sentinel although the
\* Cache holds a primary text for the url.
C16_Witness ==
    /\ NoPrimaryText
    /\ fetch.item_json = "j_notext"
    /\ fetch.force_download
    /\ fetch.found = "fresh"
    /\ fetch.value = NoValue
    /\ HasRow(primary_texts, "item_url", fetch.url)

\* The rows of url in table, and for documents the files they name.
SameEntry(kind) ==
    \A u \in Urls : u = fetch'.url =>
        CASE kind = "item" ->
               SelectRows(items, "url", u)' = SelectRows(items, "url", u)
          [] kind = "document" ->
               /\ SelectRows(documents, "url", u)' = SelectRows(documents, "url", u)
               /\ files' = files
          [] OTHER ->
               SelectRows(primary_texts, "item_url", u)'
                   = SelectRows(primary_texts, "item_url", u)

\* The request for the payload of kind was answered with another status than
\* requests.codes.ok.
RequestFailed(op, kind) ==
    /\ FetchStep(op)
    /\ fetch'.requests # <<>>
    /\ fetch'.requests[Len(fetch'.requests)] = kind
    /\ fetch'.status_code # 200

FailedFetch(op, kind) ==
    RequestFailed(op, kind)
        => /\ fetch'.outcome = "APIError"
           /\ fetch'.value = NoValue
           /\ ~InSeq(Method("add", kind), fetch'.cache_calls)
           /\ SameEntry(kind)

C18_WriteBackFailureTolerated ==
    fetch.status_code = 200 => fetch.outcome = "return"

\* ------------------------------------------------ claims on the life of an entry

\* A call of an add method that returns.
AddStep == nops' = nops + 1 /\ ret'.op \in AddMethods /\ ret'.outcome = "return"

\* C26: after every add_<kind>(url, v) that returns, has_<kind>(url) is true
\* and the table holds one row for url whose recorded time is the time of
\* the add, whatever max_age is and however the entry stood before.
C26_AddMakesFresh ==
    [][AddStep =>
         \A u \in Urls : u = ret'.url =>
           /\ ret'.op = "add_item" =>
                has_item(Key(u))' /\ StampedNow(items, "url", u)'
           /\ ret'.op = "add_document" =>
                has_document(Key(u))' /\ StampedNow(documents, "url", u)'
           /\ ret'.op = "add_primary_text" =>
                has_primary_text(Key(u))'
                /\ StampedNow(primary_texts, "item_url", u)']_vars

\* An add_document of a url whose row has_document did not report.
C26_Witness ==
    /\ ret.op = "add_document"
    /\ ret.outcome = "return"
    /\ ret.found = "stale"
    /\ has_document(Key(ret.url))

\* The clock does not go back and no add method is called.
TimePasses ==
    now' >= now /\ cache' = cache /\ ~(nops' = nops + 1 /\ ret'.op \in AddMethods)

\* C27: while the clock does not go back and no add method is called, a row
\* that has_<kind> does not report is not reported later either.
C27_StaleStaysStale ==
    [][TimePasses =>
         \A u \in Urls :
           /\ HasRow(items, "url", u) /\ ~has_item(Key(u))
                => ~has_item(Key(u))'
           /\ HasRow(documents, "url", u) /\ ~has_document(Key(u))
                => ~has_document(Key(u))'
           /\ HasRow(primary_texts, "item_url", u) /\ ~has_primary_text(Key(u))
                => ~has_primary_text(Key(u))']_vars

\* A call of a has_ or get_ method.
ReadStep == nops' = nops + 1 /\ ret'.op \in ReadMethods

\* The rows of u in a table change only in a call of the add method of the
\* table for u.
ChangedOnlyByAdd(add, u, rows, rows_after) ==
    rows # <<>> /\ rows_after # rows
        => nops' = nops + 1 /\ ret'.op = add /\ ret'.url = u

\* C28: a has_ or get_ call changes no row and no file; the rows of a key
\* change, and a file goes, only in an add of the same kind for the same key;
\* and a get_ of a key that has a row returns the payload of the row, also
\* when has_<kind> does not report the row.
C28_NoEviction ==
    [][/\ ReadStep => cache' = cache
       /\ \A u \in Urls :
            /\ ChangedOnlyByAdd("add_item", u,
                   SelectRows(items, "url", u), SelectRows(items, "url", u)')
            /\ ChangedOnlyByAdd("add_document", u,
                   SelectRows(documents, "url", u), SelectRows(documents, "url", u)')
            /\ ChangedOnlyByAdd("add_primary_text", u,
                   SelectRows(primary_texts, "item_url", u),
                   SelectRows(primary_texts, "item_url", u)')
       /\ \A p \in Paths :
            files[p] # NoFile /\ files'[p] # files[p]
                => ret'.op = "add_document" /\ p \in ret'.old_file_paths
       /\ ReadStep /\ ret'.found # "absent" =>
            /\ ret'.op = "get_item" =>
                 ret'.outcome = "return"
                 /\ ret'.value = Head(SelectRows(items, "url", ret'.url)).metadata
            /\ ret'.op = "get_primary_text" =>
                 ret'.outcome = "return"
                 /\ ret'.value
                      = Head(SelectRows(primary_texts, "item_url", ret'.url)).primary_text
            /\ ret'.op = "get_document" =>
                 ret'.outcome = "return"
                 /\ ret'.value
                      = files[Head(SelectRows(documents, "url", ret'.url)).path]]_vars

\* A get_item that returned the text of a row that has_item did not report.
C28_Witness ==
    /\ ret.op = "get_item"
    /\ ret.found = "stale"
    /\ ret.outcome = "return"
    /\ ret.value = latest["items"][ret.url]
    /\ ~has_item(Key(ret.url))

\* ------------------------------------------------ claims on replacing a row

\* C29: once an add method has been entered for a key that had a row, the
\* table of the method holds a row for the key in every committed state,
\* also after the method was cut short.
C29_AtomicReplace ==
    \A w \in Writers :
        writers[w].had_row => RowsOf(writers[w].op, writers[w].url) # <<>>

C31_AllOldRowsCleaned ==
    /\ ret.op = "add_document" /\ ret.outcome = "return" =>
         /\ Len(SelectRows(documents, "url", ret.url)) = 1
         /\ files[Head(SelectRows(documents, "url", ret.url)).path] = ret.arg
         /\ \A p \in ret.old_file_paths : files[p] = NoFile
    /\ ret.op = "add_item" /\ ret.outcome = "return" =>
         /\ Len(SelectRows(items, "url", ret.url)) = 1
         /\ Head(SelectRows(items, "url", ret.url)).metadata = ret.arg
    /\ ret.op = "add_primary_text" /\ ret.outcome = "return" =>
         /\ Len(SelectRows(primary_texts, "item_url", ret.url)) = 1
         /\ Head(SelectRows(primary_texts, "item_url", ret.url)).primary_text = ret.arg

\* An add_document that replaced two rows and unlinked the file of each.
C31_Witness ==
    /\ ret.op = "add_document"
    /\ ret.outcome = "return"
    /\ ret.replaced = 2
    /\ Cardinality(ret.old_file_paths) = 2
    /\ Cardinality({p \in Paths : files[p] # NoFile}) = 1

\* Every file of file_dir is named by a documents row, and every documents
\* row names a file of its own.
OneFilePerRow ==
    /\ \A p \in Paths : files[p] # NoFile =>
         \E i \in 1..Len(documents) : documents[i].path = p
    /\ \A i \in 1..Len(documents) : files[documents[i].path] # NoFile
    /\ Cardinality({p \in Paths : files[p] # NoFile}) = Len(documents)

\* C32: after an add_document for a url was cut short between the writing
\* of its file and the INSERT, a completed add_document for the same url
\* leaves file_dir with one file per documents row: the file of the
\* interrupted call is gone.
C32_LeftoverBlobRemoved ==
    ret.op = "add_document" /\ ret.url = "u1" /\ ret.outcome = "return"
        => OneFilePerRow

\* A call of add_document that returns.
AddDocumentStep ==
    nops' = nops + 1 /\ ret'.op = "add_document" /\ ret'.outcome = "return"

\* The documents row inserted last for a url, after the step.
NewRow(u) ==
    LET rows == SelectRows(documents, "url", u)' IN rows[Len(rows)]

\* C33: the path of the row that add_document inserts named no file before
\* the call, and the file of every row of another url holds after the call
\* what it held before.
C33_UniqueBlobPaths ==
    [][AddDocumentStep =>
         \A u \in Urls : u = ret'.url =>
           /\ files[NewRow(u).path] = NoFile
           /\ \A i \in 1..Len(documents) :
                documents[i].url # u =>
                  /\ documents[i].path # NewRow(u).path
                  /\ files'[documents[i].path] = files[documents[i].path]]_vars

\* An add_document for u2 made while two files backed rows of u1: the three
\* paths now hold three files, those of u1 with their data.
C33_Witness ==
    /\ ret.op = "add_document"
    /\ ret.outcome = "return"
    /\ ret.url = "u2"
    /\ Len(SelectRows(documents, "url", "u1")) = 2
    /\ files[1] = "b1"
    /\ files[2] = "b2"
    /\ files[Head(SelectRows(documents, "url", "u2")).path] = ret.arg

\* C34: an add_document for a url removes only files that rows of that url
\* name, and leaves the documents rows of every other url, their files and
\* the result of get_document for them as they were.
C34_PerKeyIsolation ==
    [][AddDocumentStep =>
         /\ \A p \in Paths :
              files[p] # NoFile /\ files'[p] # files[p] =>
                \A u \in Urls : u = ret'.url =>
                  p \in PathsOf(SelectRows(documents, "url", u))
         /\ \A u \in Urls : u # ret'.url =>
              /\ SelectRows(documents, "url", u)' = SelectRows(documents, "url", u)
              /\ \A p \in PathsOf(SelectRows(documents, "url", u)) :
                   files'[p] = files[p]
              /\ get_document(Key(u))' = get_document(Key(u))]_vars

\* An add_document for u1 that replaced a row and removed its file while u2
\* had a row: get_document(u2) returns what was added for u2.
C34_Witness ==
    /\ ret.op = "add_document"
    /\ ret.outcome = "return"
    /\ ret.url = "u1"
    /\ ret.replaced = 1
    /\ ret.old_file_paths # {}
    /\ latest["documents"]["u2"] # NoValue
    /\ get_document(Key("u2")) = {Return(latest["documents"]["u2"])}

\* The exceptions that report a failure of the storage.
StorageErrors == {"IOError", "OSError"}

\* C35: an add_document whose path generation met existing files and gave
\* up ended with a storage error.
C35_BoundedPathGeneration ==
    ret.op = "add_document" /\ ret.outcome # "return" /\ writers["w1"].collisions > 0
        => ret.outcome \in StorageErrors

\* A call of add_document for a url whose row names a file that does not
\* exist, where uuid4 does not give the token of that row again.
AddOverMissingFile ==
    /\ nops' = nops + 1
    /\ ret'.op = "add_document"
    /\ \A u \in Urls : u = ret'.url =>
         /\ \E p \in PathsOf(SelectRows(documents, "url", u)) : files[p] = NoFile
         /\ NewRow(u).path \notin PathsOf(SelectRows(documents, "url", u))

ReadOfMissingFile ==
    /\ nops' = nops + 1
    /\ fetch'.op = "get_document"
    /\ ~fetch'.force_download
    /\ use_cache
    /\ \A u \in Urls : u = fetch'.url =>
         /\ has_document(Key(u))
         /\ \E p \in PathsOf(SelectRows(documents, "url", u)) : files[p] = NoFile

\* C37: such a fetch sends a request for the document and ends as the
\* request does: it returns the payload of the response, or fails with
\* APIError if the server does not give one.
C37_FallbackOnReadFailure ==
    [][ReadOfMissingFile =>
         \/ fetch'.requests = <<"document">> /\ fetch'.outcome = "return"
         \/ fetch'.requests = <<"document">> /\ fetch'.outcome = "APIError"]_vars

\* ------------------------------------------- claims on a failed write of a file

\* A call of add_document that raised IOError.
FailedAddDocument ==
    nops' = nops + 1 /\ ret'.op = "add_document" /\ ret'.outcome = "IOError"

\* C38: an add_document that fails to write its file changes no table, and
\* leaves the row of the url, the file of the row and the result of
\* get_document for the url as they were.
C38_FailedWriteKeepsEntry ==
    [][FailedAddDocument =>
         /\ <<items, documents, primary_texts>>' = <<items, documents, primary_texts>>
         /\ \A u \in Urls : u = ret'.url =>
              /\ \A p \in PathsOf(SelectRows(documents, "url", u)) :
                   files'[p] = files[p]
              /\ get_document(Key(u))' = get_document(Key(u))]_vars

\* An add_document(url, b2) that failed while url held b1: get_document
\* still returns b1.
C38_Witness ==
    /\ ret.op = "add_document"
    /\ ret.outcome = "IOError"
    /\ ret.arg = "b2"
    /\ ret.found = "fresh"
    /\ get_document(Key(ret.url)) = {Return("b1")}
    /\ \E p \in Paths : files[p] = "truncated"

\* C39: a Client constructed with use_cache false and update_cache false
\* holds no Cache (no connection, nothing on disk), and none of its fetches,
\* forced or not, calls a method of the cache: each one has sent its request
\* and none has ended in the AttributeError of a call on None.
C39_NoCacheClient ==
    ~use_cache /\ ~update_cache =>
        /\ conn = "none"
        /\ disk.database = "absent"
        /\ cache = <<<<>>, <<>>, <<>>, [p \in Paths |-> NoFile]>>
        /\ fetch.op # "none" =>
             /\ fetch.cache_calls = <<>>
             /\ fetch.outcome # "AttributeError"
             /\ fetch.requests # <<>>

\* A Client without a cache has fetched a primary text, forced, by two
\* requests, and has returned it.
C39_Witness ==
    /\ ~use_cache
    /\ ~update_cache
    /\ conn = "none"
    /\ fetch.op = "get_primary_text"
    /\ fetch.force_download
    /\ fetch.outcome = "return"
    /\ fetch.value \in Texts
    /\ fetch.requests = <<"item", "primary_text">>

\* A forced call of Client.get_primary_text.
ForcedPrimaryTextFetch ==
    nops' = nops + 1 /\ fetch'.op = "get_primary_text" /\ fetch'.force_download

====
